---- MODULE Spec2Model ----
(***************************************************************************)
(* Model of crypto/host/rsa.c: the OE_RSA_* key operations over OpenSSL.   *)
(*                                                                         *)
(* The state is the caller's key handles (OE_RSA_KEY_IMPL: magic, rsa),    *)
(* the backend heap of reference-counted RSA objects, for each handle the  *)
(* call that last wrote it, and a record of the last call (arguments,      *)
(* result, outputs and the backend calls it made).                         *)
(* Every operation is one action; a backend call that can fail does so     *)
(* when the action's `fail` input names it.                                *)
(***************************************************************************)
EXTENDS Integers, Sequences, FiniteSets, TLC

VARIABLES hd, objs, origin, last

vars == <<hd, objs, origin, last>>

(***************************************************************************)
(* Bounds                                                                  *)
(***************************************************************************)
\* cells of the backend heap: RSA objects that can be live at one time
MaxObjs == 3
\* distinct key materials the generator or a PEM text can carry
NumKeys == 2
\* the largest buffer capacity a caller declares without a size query
MaxSize == 8

(***************************************************************************)
(* Values                                                                  *)
(***************************************************************************)
NULL == "NULL"
Handles == {"k1", "k2"}
KeyArgs == Handles \cup {NULL}

\* pointers to RSA objects: an index into objs, the null pointer, or a
\* non-null pointer that refers to no RSA object (uninitialised memory)
NULLP == 0
WILD == -1

OE_OK == "OE_OK"
OE_FAILURE == "OE_FAILURE"
OE_BUFFER_TOO_SMALL == "OE_BUFFER_TOO_SMALL"
OE_INVALID_PARAMETER == "OE_INVALID_PARAMETER"
OE_UNEXPECTED == "OE_UNEXPECTED"
Results == {OE_OK, OE_FAILURE, OE_BUFFER_TOO_SMALL, OE_INVALID_PARAMETER, OE_UNEXPECTED}

\* 64-bit unsigned values are four 16-bit limbs, most significant first
U64(n) == <<0, 0, 0, n>>
U64Zero == <<0, 0, 0, 0>>
RECURSIVE U64GtFrom(_, _, _)
U64GtFrom(a, b, i) ==
    IF i > 4 THEN FALSE
    ELSE IF a[i] # b[i] THEN a[i] > b[i]
    ELSE U64GtFrom(a, b, i + 1)
U64Gt(a, b) == U64GtFrom(a, b, 1)

OE_RSA_KEY_MAGIC == <<10769, 60677, 24209, 45697>>
\* a tag value that is neither zero nor the magic (uninitialised memory)
GarbageMagic == <<1, 2, 3, 4>>

INT_MAX == <<0, 0, 32767, 65535>>
ULONG_MAX == <<65535, 65535, 65535, 65535>>

KeyMats == 1..NumKeys
\* the PEM texts a caller holds carry the first key materials; the backend's
\* generator comes up with one that no PEM text of the caller carries
PemKeys == 1..(NumKeys - 1)
GenKeys == {NumKeys}
\* modulus lengths in bits the generator is asked for (small stand-ins)
GoodBits == {16}

(***************************************************************************)
(* The machine a call runs on: handles, RSA heap, backend calls so far     *)
(***************************************************************************)
\* oom: an allocation found no free heap cell (the run is outside the model's bound)
Machine(h, o) == [hd |-> h, objs |-> o, tr |-> <<>>, oom |-> FALSE]
Ev(m, e) == [m EXCEPT !.tr = Append(@, e)]
Ret(m, r) == [m |-> m, result |-> r]

Count(tr, S) == Cardinality({i \in 1..Len(tr) : tr[i] \in S})

(***************************************************************************)
(* Backend: reference-counted RSA objects                                  *)
(***************************************************************************)
\* a heap cell holds a live RSA object (ref > 0) or is free memory
FreeCell == [ref |-> 0, km |-> 0, bits |-> 0, priv |-> FALSE]
Cells == 1..MaxObjs
FreeCells(m) == {p \in Cells : m.objs[p].ref = 0}

\* a fresh RSA object with reference count 1, in the first free cell: its
\* pointer is NewPtr(m)
NewPtr(m) ==
    IF FreeCells(m) = {} THEN MaxObjs
    ELSE CHOOSE p \in FreeCells(m) : \A q \in FreeCells(m) : p <= q
RSA_new(m, km, bits, priv) ==
    IF FreeCells(m) = {} THEN [m EXCEPT !.oom = TRUE]
    ELSE [m EXCEPT !.objs[NewPtr(m)] = [ref |-> 1, km |-> km, bits |-> bits, priv |-> priv]]

RSA_up_ref(m, p) == Ev([m EXCEPT !.objs[p].ref = @ + 1], "RSA_up_ref")

\* the last release destroys the object; releasing a destroyed object is a
\* double free
RSA_free(m, p) ==
    IF m.objs[p].ref > 1
    THEN Ev([m EXCEPT !.objs[p].ref = @ - 1], "RSA_free")
    ELSE IF m.objs[p].ref = 1
    THEN Ev([m EXCEPT !.objs[p] = FreeCell], "RSA_free")
    ELSE Ev(m, "RSA_free:dead")

RSA_size(m, p) == (m.objs[p].bits + 7) \div 8

\* EVP_PKEY envelope: a null pointer (NoPkey), or a live envelope with the
\* pointer of the RSA object it owns (NULLP when it owns none)
NoPkey == [live |-> FALSE, rsa |-> NULLP]
Pkey(rsa) == [live |-> TRUE, rsa |-> rsa]
EVP_PKEY_free(m, pkey) ==
    IF pkey.rsa # NULLP
    THEN Ev(RSA_free(m, pkey.rsa), "EVP_PKEY_free")
    ELSE Ev(m, "EVP_PKEY_free")

(***************************************************************************)
(* Backend: PEM text.  A byte is [t, v]; the text of a key is its header   *)
(* line, its fields and its footer line.                                   *)
(***************************************************************************)
B(t, v) == [t |-> t, v |-> v]
NUL == B("nul", 0)

\* a caller's buffer argument: a null pointer or the bytes it points to
NullBuf == [null |-> TRUE, bytes |-> <<>>]
Buf(bytes) == [null |-> FALSE, bytes |-> bytes]

NoParse == [ok |-> FALSE, alg |-> 0, km |-> 0, bits |-> 0]

PEM_text_RSAPrivateKey(km, bits) ==
    << B("BEGIN RSA PRIVATE KEY", 0), B("bits", bits), B("n", km), B("d", km),
       B("END RSA PRIVATE KEY", 0) >>

PEM_text_PUBKEY(alg, km, bits) ==
    << B("BEGIN PUBLIC KEY", 0), B("alg", alg), B("bits", bits), B("n", km),
       B("END PUBLIC KEY", 0) >>

ALG_RSA == "rsaEncryption"
ALG_EC == "id-ecPublicKey"
AlgId(a) == IF a = ALG_RSA THEN 6 ELSE 408

\* the readers take the first PEM block of the buffer and ignore what follows
PEM_parse_RSAPrivateKey(buf) ==
    IF /\ Len(buf) >= 5
       /\ buf[1] = B("BEGIN RSA PRIVATE KEY", 0)
       /\ buf[2].t = "bits" /\ buf[2].v > 0
       /\ buf[3].t = "n" /\ buf[4].t = "d" /\ buf[3].v = buf[4].v
       /\ buf[5] = B("END RSA PRIVATE KEY", 0)
    THEN [ok |-> TRUE, alg |-> AlgId(ALG_RSA), km |-> buf[3].v, bits |-> buf[2].v]
    ELSE NoParse

PEM_parse_PUBKEY(buf) ==
    IF /\ Len(buf) >= 5
       /\ buf[1] = B("BEGIN PUBLIC KEY", 0)
       /\ buf[2].t = "alg" /\ buf[2].v \in {AlgId(ALG_RSA), AlgId(ALG_EC)}
       /\ buf[3].t = "bits" /\ buf[3].v > 0
       /\ buf[4].t = "n"
       /\ buf[5] = B("END PUBLIC KEY", 0)
    THEN [ok |-> TRUE, alg |-> buf[2].v, km |-> buf[4].v, bits |-> buf[3].v]
    ELSE NoParse

\* the buffer's first null byte is its last byte
FirstNul(buf, n) ==
    IF \E i \in 1..n : buf[i] = NUL
    THEN CHOOSE i \in 1..n : buf[i] = NUL /\ \A j \in 1..(i - 1) : buf[j] # NUL
    ELSE n + 1
OE_CheckForNullTerminator(pemData, pemSize) ==
    IF FirstNul(pemData.bytes, pemSize) = pemSize THEN OE_OK ELSE OE_FAILURE

(***************************************************************************)
(* Local definitions                                                       *)
(***************************************************************************)
EmptyImpl == [magic |-> U64Zero, rsa |-> NULLP]

\* faulty variant: the output handle is not initialised
_ClearImpl_Noop(m, impl) == m

_ClearImpl(m, impl) ==
    IF impl # NULL THEN [m EXCEPT !.hd[impl] = EmptyImpl] ELSE m

_ValidImpl(m, impl) ==
    /\ impl # NULL
    /\ m.hd[impl].magic = OE_RSA_KEY_MAGIC
    /\ m.hd[impl].rsa # NULLP

\* faulty variant: the pointer is stored without the tag
SetImpl_NoMagic(m, impl, rsa) ==
    [m EXCEPT !.hd[impl] = [magic |-> U64Zero, rsa |-> rsa]]

SetImpl(m, impl, rsa) ==
    [m EXCEPT !.hd[impl] = [magic |-> OE_RSA_KEY_MAGIC, rsa |-> rsa]]

(***************************************************************************)
(* OE_RSAReadPrivateKeyFromPEM                                             *)
(***************************************************************************)
ReadPrivDone(m, rsa, bio, result) ==
    LET m1 == IF rsa # NULLP THEN RSA_free(m, rsa) ELSE m
        m2 == IF bio THEN Ev(m1, "BIO_free") ELSE m1
    IN Ret(m2, result)

OE_RSAReadPrivateKeyFromPEM(m, pemData, pemSize, key, fail) ==
    LET m0 == _ClearImpl(m, key) IN
    IF pemData.null \/ pemSize = 0 \/ key = NULL
    THEN ReadPrivDone(m0, NULLP, FALSE, OE_INVALID_PARAMETER)
    ELSE IF OE_CheckForNullTerminator(pemData, pemSize) # OE_OK
    THEN ReadPrivDone(m0, NULLP, FALSE, OE_INVALID_PARAMETER)
    ELSE
    LET m1 == Ev(m0, "OE_InitializeOpenSSL") IN
    IF fail = "BIO_new_mem_buf"
    THEN ReadPrivDone(Ev(m1, "BIO_new_mem_buf:NULL"), NULLP, FALSE, OE_FAILURE)
    ELSE
    LET m2 == Ev(m1, "BIO_new_mem_buf")
        bio == TRUE
        parsed == PEM_parse_RSAPrivateKey(SubSeq(pemData.bytes, 1, pemSize))
    IN
    IF fail = "PEM_read_bio_RSAPrivateKey" \/ ~parsed.ok
    THEN ReadPrivDone(Ev(m2, "PEM_read_bio_RSAPrivateKey:NULL"), NULLP, bio, OE_FAILURE)
    ELSE
    LET rsa == NewPtr(m2)
        m3 == Ev(RSA_new(m2, parsed.km, parsed.bits, TRUE), "PEM_read_bio_RSAPrivateKey")
        m4 == SetImpl(m3, key, rsa)
    IN ReadPrivDone(m4, NULLP, bio, OE_OK)

(***************************************************************************)
(* OE_RSAReadPublicKeyFromPEM                                              *)
(***************************************************************************)
\* faulty variant: the envelope is not freed on the way out
ReadPubDone_KeepsEnvelope(m, rsa, pkey, bio, result) ==
    LET m1 == IF rsa # NULLP THEN RSA_free(m, rsa) ELSE m
        m3 == IF bio THEN Ev(m1, "BIO_free") ELSE m1
    IN Ret(m3, result)

ReadPubDone(m, rsa, pkey, bio, result) ==
    LET m1 == IF rsa # NULLP THEN RSA_free(m, rsa) ELSE m
        m2 == IF pkey.live THEN EVP_PKEY_free(m1, pkey) ELSE m1
        m3 == IF bio THEN Ev(m2, "BIO_free") ELSE m2
    IN Ret(m3, result)

OE_RSAReadPublicKeyFromPEM(m, pemData, pemSize, key, fail) ==
    LET m0 == _ClearImpl(m, key) IN
    IF pemData.null \/ pemSize = 0 \/ key = NULL
    THEN ReadPubDone(m0, NULLP, NoPkey, FALSE, OE_INVALID_PARAMETER)
    ELSE IF OE_CheckForNullTerminator(pemData, pemSize) # OE_OK
    THEN ReadPubDone(m0, NULLP, NoPkey, FALSE, OE_INVALID_PARAMETER)
    ELSE
    LET m1 == Ev(m0, "OE_InitializeOpenSSL") IN
    IF fail = "BIO_new_mem_buf"
    THEN ReadPubDone(Ev(m1, "BIO_new_mem_buf:NULL"), NULLP, NoPkey, FALSE, OE_FAILURE)
    ELSE
    LET m2 == Ev(m1, "BIO_new_mem_buf")
        bio == TRUE
        parsed == PEM_parse_PUBKEY(SubSeq(pemData.bytes, 1, pemSize))
    IN
    IF fail = "PEM_read_bio_PUBKEY" \/ ~parsed.ok
    THEN ReadPubDone(Ev(m2, "PEM_read_bio_PUBKEY:NULL"), NULLP, NoPkey, bio, OE_FAILURE)
    ELSE
    \* the envelope owns the parsed key: an RSA object when the algorithm is RSA
    LET isRsa == parsed.alg = AlgId(ALG_RSA)
        m3 == Ev(IF isRsa THEN RSA_new(m2, parsed.km, parsed.bits, FALSE) ELSE m2,
                 "PEM_read_bio_PUBKEY")
        pkey == Pkey(IF isRsa THEN NewPtr(m2) ELSE NULLP)
    IN
    IF fail = "EVP_PKEY_get1_RSA" \/ pkey.rsa = NULLP
    THEN ReadPubDone(Ev(m3, "EVP_PKEY_get1_RSA:NULL"), NULLP, pkey, bio, OE_UNEXPECTED)
    ELSE
    \* EVP_PKEY_get1_RSA returns the envelope's key with its count incremented
    LET rsa == pkey.rsa
        m4 == Ev([m3 EXCEPT !.objs[rsa].ref = @ + 1], "EVP_PKEY_get1_RSA")
        m5 == RSA_up_ref(m4, rsa)
        m6 == SetImpl(m5, key, rsa)
    IN ReadPubDone(m6, NULLP, pkey, bio, OE_OK)

(***************************************************************************)
(* OE_RSAFree                                                              *)
(***************************************************************************)
\* faulty variant: the handle is not cleared after the release
OE_RSAFree_NoClear(m, key) ==
    IF ~_ValidImpl(m, key)
    THEN Ret(m, OE_INVALID_PARAMETER)
    ELSE Ret(RSA_free(m, m.hd[key].rsa), OE_OK)

OE_RSAFree(m, key) ==
    IF ~_ValidImpl(m, key)
    THEN Ret(m, OE_INVALID_PARAMETER)
    ELSE Ret(_ClearImpl(RSA_free(m, m.hd[key].rsa), key), OE_OK)

(***************************************************************************)
(* Backend: PKCS#1 v1.5 signatures.  The signature of a digest under a key *)
(* is RSA_size bytes determined by the key material, the digest identifier *)
(* and the digest.                                                         *)
(***************************************************************************)
OE_HASH_TYPE_SHA256 == "OE_HASH_TYPE_SHA256"
OE_HASH_TYPE_SHA512 == "OE_HASH_TYPE_SHA512"
HashTypes == {OE_HASH_TYPE_SHA256, OE_HASH_TYPE_SHA512}

_MapHashType(md) ==
    CASE md = OE_HASH_TYPE_SHA256 -> 672
      [] md = OE_HASH_TYPE_SHA512 -> 674
      [] OTHER -> 0

RECURSIVE SumSeq(_)
SumSeq(q) == IF q = <<>> THEN 0 ELSE Head(q) + SumSeq(Tail(q))

PKCS1_sig(obj, type, hash) ==
    [i \in 1..((obj.bits + 7) \div 8) |->
        B("sig", (obj.km * 31 + type + SumSeq(hash) * 3 + Len(hash) * 5 + i * 7) % 256)]

\* RSA_sign needs the private exponent
RSA_sign_ok(obj, fail) == obj.priv /\ fail # "RSA_sign"

RSA_verify(obj, type, hash, sig) == sig = PKCS1_sig(obj, type, hash)

(***************************************************************************)
(* OE_RSASign                                                              *)
(*   hashData: buffer argument; signature: TRUE when the pointer is not    *)
(*   null; signatureSize: [null, v], the pointer and the value it points to*)
(* Returns the machine, the result, *signatureSize on return and the bytes *)
(* written to the signature buffer.                                        *)
(***************************************************************************)
SizeArg(v) == [null |-> FALSE, v |-> v]
NullSize == [null |-> TRUE, v |-> 0]

RetOut(m, r, size, out) == [m |-> m, result |-> r, size |-> size, out |-> out]

\* faulty variant: a null signature buffer with a non-zero size is let through
OE_RSASign_NoNullBufCheck(m, privateKey, hashType, hashData, hashSize, signature, signatureSize, fail) ==
    LET type == _MapHashType(hashType) IN
    IF ~_ValidImpl(m, privateKey) \/ hashData.null \/ hashSize = 0 \/ signatureSize.null
    THEN RetOut(m, OE_INVALID_PARAMETER, signatureSize.v, <<>>)
    ELSE
    LET m1 == Ev(m, "OE_InitializeOpenSSL")
        rsa == m.hd[privateKey].rsa
        size == RSA_size(m1, rsa)
        m2 == Ev(m1, "RSA_size")
    IN
    IF size > signatureSize.v
    THEN RetOut(m2, OE_BUFFER_TOO_SMALL, size, <<>>)
    ELSE
    IF ~RSA_sign_ok(m2.objs[rsa], fail)
    THEN RetOut(Ev(m2, "RSA_sign:0"), OE_FAILURE, size, <<>>)
    ELSE
    LET sig == PKCS1_sig(m2.objs[rsa], type, SubSeq(hashData.bytes, 1, hashSize))
        \* the backend reports the length it produced
        siglen == IF fail = "RSA_sign:siglen" THEN Len(sig) - 1 ELSE Len(sig)
        m3 == Ev(m2, "RSA_sign")
    IN
    IF siglen # size
    THEN RetOut(m3, OE_UNEXPECTED, size, SubSeq(sig, 1, siglen))
    ELSE RetOut(m3, OE_OK, size, sig)

\* faulty variant: on success the declared capacity is left in the size field
OE_RSASign_KeepsCapacity(m, privateKey, hashType, hashData, hashSize, signature, signatureSize, fail) ==
    LET type == _MapHashType(hashType) IN
    IF ~_ValidImpl(m, privateKey) \/ hashData.null \/ hashSize = 0 \/ signatureSize.null
    THEN RetOut(m, OE_INVALID_PARAMETER, signatureSize.v, <<>>)
    ELSE IF ~signature /\ signatureSize.v # 0
    THEN RetOut(m, OE_INVALID_PARAMETER, signatureSize.v, <<>>)
    ELSE
    LET m1 == Ev(m, "OE_InitializeOpenSSL")
        rsa == m.hd[privateKey].rsa
        size == RSA_size(m1, rsa)
        m2 == Ev(m1, "RSA_size")
    IN
    IF size > signatureSize.v
    THEN RetOut(m2, OE_BUFFER_TOO_SMALL, size, <<>>)
    ELSE
    IF ~RSA_sign_ok(m2.objs[rsa], fail)
    THEN RetOut(Ev(m2, "RSA_sign:0"), OE_FAILURE, size, <<>>)
    ELSE
    LET sig == PKCS1_sig(m2.objs[rsa], type, SubSeq(hashData.bytes, 1, hashSize))
        \* the backend reports the length it produced
        siglen == IF fail = "RSA_sign:siglen" THEN Len(sig) - 1 ELSE Len(sig)
        m3 == Ev(m2, "RSA_sign")
    IN
    IF siglen # size
    THEN RetOut(m3, OE_UNEXPECTED, size, SubSeq(sig, 1, siglen))
    ELSE RetOut(m3, OE_OK, signatureSize.v, sig)

OE_RSASign(m, privateKey, hashType, hashData, hashSize, signature, signatureSize, fail) ==
    LET type == _MapHashType(hashType) IN
    IF ~_ValidImpl(m, privateKey) \/ hashData.null \/ hashSize = 0 \/ signatureSize.null
    THEN RetOut(m, OE_INVALID_PARAMETER, signatureSize.v, <<>>)
    ELSE IF ~signature /\ signatureSize.v # 0
    THEN RetOut(m, OE_INVALID_PARAMETER, signatureSize.v, <<>>)
    ELSE
    LET m1 == Ev(m, "OE_InitializeOpenSSL")
        rsa == m.hd[privateKey].rsa
        size == RSA_size(m1, rsa)
        m2 == Ev(m1, "RSA_size")
    IN
    IF size > signatureSize.v
    THEN RetOut(m2, OE_BUFFER_TOO_SMALL, size, <<>>)
    ELSE
    IF ~RSA_sign_ok(m2.objs[rsa], fail)
    THEN RetOut(Ev(m2, "RSA_sign:0"), OE_FAILURE, size, <<>>)
    ELSE
    LET sig == PKCS1_sig(m2.objs[rsa], type, SubSeq(hashData.bytes, 1, hashSize))
        \* the backend reports the length it produced
        siglen == IF fail = "RSA_sign:siglen" THEN Len(sig) - 1 ELSE Len(sig)
        m3 == Ev(m2, "RSA_sign")
    IN
    IF siglen # size
    THEN RetOut(m3, OE_UNEXPECTED, size, SubSeq(sig, 1, siglen))
    ELSE RetOut(m3, OE_OK, size, sig)

(***************************************************************************)
(* OE_RSAVerify                                                            *)
(***************************************************************************)
\* faulty variant: the backend's verdict is not looked at
OE_RSAVerify_IgnoresVerdict(m, publicKey, hashType, hashData, hashSize, signature, signatureSize) ==
    IF \/ ~_ValidImpl(m, publicKey) \/ hashSize = 0 \/ hashData.null
       \/ signature.null \/ signatureSize = 0
    THEN Ret(m, OE_INVALID_PARAMETER)
    ELSE Ret(Ev(Ev(m, "OE_InitializeOpenSSL"), "RSA_verify"), OE_OK)

\* faulty variant: the digest is always verified as SHA-256
OE_RSAVerify_FixedNid(m, publicKey, hashType, hashData, hashSize, signature, signatureSize) ==
    LET type == _MapHashType(OE_HASH_TYPE_SHA256) IN
    IF \/ ~_ValidImpl(m, publicKey) \/ hashSize = 0 \/ hashData.null
       \/ signature.null \/ signatureSize = 0
    THEN Ret(m, OE_INVALID_PARAMETER)
    ELSE
    LET m1 == Ev(m, "OE_InitializeOpenSSL")
        rsa == m.hd[publicKey].rsa
    IN
    IF ~RSA_verify(m1.objs[rsa], type, SubSeq(hashData.bytes, 1, hashSize),
                   SubSeq(signature.bytes, 1, signatureSize))
    THEN Ret(Ev(m1, "RSA_verify:0"), OE_FAILURE)
    ELSE Ret(Ev(m1, "RSA_verify"), OE_OK)

OE_RSAVerify(m, publicKey, hashType, hashData, hashSize, signature, signatureSize) ==
    LET type == _MapHashType(hashType) IN
    IF \/ ~_ValidImpl(m, publicKey) \/ hashSize = 0 \/ hashData.null
       \/ signature.null \/ signatureSize = 0
    THEN Ret(m, OE_INVALID_PARAMETER)
    ELSE
    LET m1 == Ev(m, "OE_InitializeOpenSSL")
        rsa == m.hd[publicKey].rsa
    IN
    IF ~RSA_verify(m1.objs[rsa], type, SubSeq(hashData.bytes, 1, hashSize),
                   SubSeq(signature.bytes, 1, signatureSize))
    THEN Ret(Ev(m1, "RSA_verify:0"), OE_FAILURE)
    ELSE Ret(Ev(m1, "RSA_verify"), OE_OK)

(***************************************************************************)
(* OE_RSAWritePrivateKeyToPEM                                              *)
(*   data: TRUE when the pointer is not null; size: [null, v]              *)
(***************************************************************************)
WriteDone(m, bio, pkey, result, size, out) ==
    LET m1 == IF bio THEN Ev(m, "BIO_free") ELSE m
        m2 == IF pkey.live THEN EVP_PKEY_free(m1, pkey) ELSE m1
    IN RetOut(m2, result, size, out)

\* writing a private key needs the private exponent
PEM_write_RSAPrivateKey_ok(obj, fail) == obj.priv /\ fail # "PEM_write_bio_RSAPrivateKey"

\* faulty variant: the size written back leaves out the appended null terminator
CopyOut_VisibleSize(m, mem, data, size, pkey, fail) ==
    IF fail = "BIO_get_mem_ptr"
    THEN WriteDone(Ev(m, "BIO_get_mem_ptr:0"), TRUE, pkey, OE_FAILURE, size.v, <<>>)
    ELSE
    LET m1 == Ev(m, "BIO_get_mem_ptr") IN
    IF size.v < Len(mem)
    THEN WriteDone(m1, TRUE, pkey, OE_BUFFER_TOO_SMALL, Len(mem) - 1, <<>>)
    ELSE WriteDone(m1, TRUE, pkey, OE_OK, Len(mem) - 1, mem)

\* faulty variant: a buffer of exactly the required size is taken as too small
CopyOut_OffByOne(m, mem, data, size, pkey, fail) ==
    IF fail = "BIO_get_mem_ptr"
    THEN WriteDone(Ev(m, "BIO_get_mem_ptr:0"), TRUE, pkey, OE_FAILURE, size.v, <<>>)
    ELSE
    LET m1 == Ev(m, "BIO_get_mem_ptr") IN
    IF size.v <= Len(mem)
    THEN WriteDone(m1, TRUE, pkey, OE_BUFFER_TOO_SMALL, Len(mem), <<>>)
    ELSE WriteDone(m1, TRUE, pkey, OE_OK, Len(mem), mem)

\* the tail of both writers: take the BIO's memory and copy it out
CopyOut(m, mem, data, size, pkey, fail) ==
    IF fail = "BIO_get_mem_ptr"
    THEN WriteDone(Ev(m, "BIO_get_mem_ptr:0"), TRUE, pkey, OE_FAILURE, size.v, <<>>)
    ELSE
    LET m1 == Ev(m, "BIO_get_mem_ptr") IN
    IF size.v < Len(mem)
    THEN WriteDone(m1, TRUE, pkey, OE_BUFFER_TOO_SMALL, Len(mem), <<>>)
    ELSE WriteDone(m1, TRUE, pkey, OE_OK, Len(mem), mem)

OE_RSAWritePrivateKeyToPEM(m, key, data, size, fail) ==
    IF ~_ValidImpl(m, key) \/ size.null
    THEN WriteDone(m, FALSE, NoPkey, OE_INVALID_PARAMETER, size.v, <<>>)
    ELSE IF ~data /\ size.v # 0
    THEN WriteDone(m, FALSE, NoPkey, OE_INVALID_PARAMETER, size.v, <<>>)
    ELSE IF fail = "BIO_new"
    THEN WriteDone(Ev(m, "BIO_new:NULL"), FALSE, NoPkey, OE_FAILURE, size.v, <<>>)
    ELSE
    LET m1 == Ev(m, "BIO_new")
        obj == m.objs[m.hd[key].rsa]
    IN
    IF ~PEM_write_RSAPrivateKey_ok(obj, fail)
    THEN WriteDone(Ev(m1, "PEM_write_bio_RSAPrivateKey:0"), TRUE, NoPkey, OE_FAILURE, size.v, <<>>)
    ELSE
    LET m2 == Ev(m1, "PEM_write_bio_RSAPrivateKey") IN
    IF fail = "BIO_write"
    THEN WriteDone(Ev(m2, "BIO_write:0"), TRUE, NoPkey, OE_FAILURE, size.v, <<>>)
    ELSE
    LET mem == Append(PEM_text_RSAPrivateKey(obj.km, obj.bits), NUL) IN
    CopyOut(Ev(m2, "BIO_write"), mem, data, size, NoPkey, fail)

(***************************************************************************)
(* OE_RSAWritePublicKeyToPEM                                               *)
(***************************************************************************)
\* faulty variant: the reference the envelope takes over is not added
OE_RSAWritePublicKeyToPEM_NoUpRef(m, key, data, size, fail) ==
    IF ~_ValidImpl(m, key) \/ size.null
    THEN WriteDone(m, FALSE, NoPkey, OE_INVALID_PARAMETER, size.v, <<>>)
    ELSE IF ~data /\ size.v # 0
    THEN WriteDone(m, FALSE, NoPkey, OE_INVALID_PARAMETER, size.v, <<>>)
    ELSE IF fail = "BIO_new"
    THEN WriteDone(Ev(m, "BIO_new:NULL"), FALSE, NoPkey, OE_FAILURE, size.v, <<>>)
    ELSE
    LET m1 == Ev(m, "BIO_new") IN
    IF fail = "EVP_PKEY_new"
    THEN WriteDone(Ev(m1, "EVP_PKEY_new:NULL"), TRUE, NoPkey, OE_FAILURE, size.v, <<>>)
    ELSE
    LET m2 == Ev(m1, "EVP_PKEY_new")
        rsa == m.hd[key].rsa
        obj == m.objs[rsa]
    IN
    IF fail = "EVP_PKEY_assign_RSA"
    THEN WriteDone(Ev(m2, "EVP_PKEY_assign_RSA:0"), TRUE, Pkey(NULLP), OE_FAILURE, size.v, <<>>)
    ELSE
    LET pkey == Pkey(rsa)
        m3 == Ev(m2, "EVP_PKEY_assign_RSA")
    IN
    IF fail = "PEM_write_bio_PUBKEY"
    THEN WriteDone(Ev(m3, "PEM_write_bio_PUBKEY:0"), TRUE, pkey, OE_FAILURE, size.v, <<>>)
    ELSE
    LET m4 == Ev(m3, "PEM_write_bio_PUBKEY") IN
    IF fail = "BIO_write"
    THEN WriteDone(Ev(m4, "BIO_write:0"), TRUE, pkey, OE_FAILURE, size.v, <<>>)
    ELSE
    LET mem == Append(PEM_text_PUBKEY(AlgId(ALG_RSA), obj.km, obj.bits), NUL) IN
    CopyOut(Ev(m4, "BIO_write"), mem, data, size, pkey, fail)

OE_RSAWritePublicKeyToPEM(m, key, data, size, fail) ==
    IF ~_ValidImpl(m, key) \/ size.null
    THEN WriteDone(m, FALSE, NoPkey, OE_INVALID_PARAMETER, size.v, <<>>)
    ELSE IF ~data /\ size.v # 0
    THEN WriteDone(m, FALSE, NoPkey, OE_INVALID_PARAMETER, size.v, <<>>)
    ELSE IF fail = "BIO_new"
    THEN WriteDone(Ev(m, "BIO_new:NULL"), FALSE, NoPkey, OE_FAILURE, size.v, <<>>)
    ELSE
    LET m1 == Ev(m, "BIO_new") IN
    IF fail = "EVP_PKEY_new"
    THEN WriteDone(Ev(m1, "EVP_PKEY_new:NULL"), TRUE, NoPkey, OE_FAILURE, size.v, <<>>)
    ELSE
    LET m2 == Ev(m1, "EVP_PKEY_new")
        rsa == m.hd[key].rsa
        obj == m.objs[rsa]
    IN
    IF fail = "EVP_PKEY_assign_RSA"
    THEN WriteDone(Ev(m2, "EVP_PKEY_assign_RSA:0"), TRUE, Pkey(NULLP), OE_FAILURE, size.v, <<>>)
    ELSE
    \* the envelope takes over one reference; the code adds it afterwards
    LET pkey == Pkey(rsa)
        m3 == RSA_up_ref(Ev(m2, "EVP_PKEY_assign_RSA"), rsa)
    IN
    IF fail = "PEM_write_bio_PUBKEY"
    THEN WriteDone(Ev(m3, "PEM_write_bio_PUBKEY:0"), TRUE, pkey, OE_FAILURE, size.v, <<>>)
    ELSE
    LET m4 == Ev(m3, "PEM_write_bio_PUBKEY") IN
    IF fail = "BIO_write"
    THEN WriteDone(Ev(m4, "BIO_write:0"), TRUE, pkey, OE_FAILURE, size.v, <<>>)
    ELSE
    LET mem == Append(PEM_text_PUBKEY(AlgId(ALG_RSA), obj.km, obj.bits), NUL) IN
    CopyOut(Ev(m4, "BIO_write"), mem, data, size, pkey, fail)

(***************************************************************************)
(* OE_RSAGenerate                                                          *)
(*   bits, exponent: 64-bit values; km: the key material the backend's     *)
(*   random generator comes up with.  `fail` names the failing backend     *)
(*   call: "priv:" and "pub:" prefix the two halves, "read:" the calls of  *)
(*   the nested OE_RSARead*FromPEM.                                        *)
(***************************************************************************)
NestedFail(fail, prefix) ==
    CASE prefix = "priv" /\ fail = "priv:read:BIO_new_mem_buf" -> "BIO_new_mem_buf"
      [] prefix = "priv" /\ fail = "priv:read:PEM_read_bio_RSAPrivateKey" -> "PEM_read_bio_RSAPrivateKey"
      [] prefix = "pub" /\ fail = "pub:read:BIO_new_mem_buf" -> "BIO_new_mem_buf"
      [] prefix = "pub" /\ fail = "pub:read:PEM_read_bio_PUBKEY" -> "PEM_read_bio_PUBKEY"
      [] prefix = "pub" /\ fail = "pub:read:EVP_PKEY_get1_RSA" -> "EVP_PKEY_get1_RSA"
      [] OTHER -> "none"

\* faulty variant: a failed call does not free the handles it populated
GenerateDone_NoRollback(m, rsa, bio, pkey, result, privateKey, publicKey) ==
    LET m1 == IF rsa # NULLP THEN RSA_free(m, rsa) ELSE m
        m2 == IF bio THEN Ev(m1, "BIO_free") ELSE m1
        m3 == IF pkey.live THEN EVP_PKEY_free(m2, pkey) ELSE m2
    IN Ret(m3, result)

\* faulty variant: the populated handles are freed on success too
GenerateDone_AlwaysRollsBack(m, rsa, bio, pkey, result, privateKey, publicKey) ==
    LET m1 == IF rsa # NULLP THEN RSA_free(m, rsa) ELSE m
        m2 == IF bio THEN Ev(m1, "BIO_free") ELSE m1
        m3 == IF pkey.live THEN EVP_PKEY_free(m2, pkey) ELSE m2
        m4 == IF _ValidImpl(m3, privateKey) THEN OE_RSAFree(m3, privateKey).m ELSE m3
        m5 == IF _ValidImpl(m4, publicKey) THEN OE_RSAFree(m4, publicKey).m ELSE m4
    IN Ret(m5, result)

GenerateDone(m, rsa, bio, pkey, result, privateKey, publicKey) ==
    LET m1 == IF rsa # NULLP THEN RSA_free(m, rsa) ELSE m
        m2 == IF bio THEN Ev(m1, "BIO_free") ELSE m1
        m3 == IF pkey.live THEN EVP_PKEY_free(m2, pkey) ELSE m2
        m4 == IF result # OE_OK /\ _ValidImpl(m3, privateKey)
              THEN OE_RSAFree(m3, privateKey).m ELSE m3
        m5 == IF result # OE_OK /\ _ValidImpl(m4, publicKey)
              THEN OE_RSAFree(m4, publicKey).m ELSE m4
    IN Ret(m5, result)

\* "Create public key object": rsa is the generated key, still owned here
GeneratePublic(m, rsa, privateKey, publicKey, fail) ==
    IF fail = "pub:BIO_new"
    THEN GenerateDone(Ev(m, "BIO_new:NULL"), rsa, FALSE, NoPkey, OE_FAILURE, privateKey, publicKey)
    ELSE
    LET m1 == Ev(m, "BIO_new") IN
    IF fail = "pub:EVP_PKEY_new"
    THEN GenerateDone(Ev(m1, "EVP_PKEY_new:NULL"), rsa, TRUE, NoPkey, OE_FAILURE, privateKey, publicKey)
    ELSE
    LET m2 == Ev(m1, "EVP_PKEY_new") IN
    IF fail = "pub:EVP_PKEY_assign_RSA"
    THEN GenerateDone(Ev(m2, "EVP_PKEY_assign_RSA:0"), rsa, TRUE, Pkey(NULLP), OE_FAILURE,
                      privateKey, publicKey)
    ELSE
    \* the envelope now owns the generated key (rsa = NULL in the code)
    LET pkey == Pkey(rsa)
        m3 == Ev(m2, "EVP_PKEY_assign_RSA")
    IN
    IF fail = "pub:PEM_write_bio_PUBKEY"
    THEN GenerateDone(Ev(m3, "PEM_write_bio_PUBKEY:0"), NULLP, TRUE, pkey, OE_FAILURE,
                      privateKey, publicKey)
    ELSE
    LET m4 == Ev(m3, "PEM_write_bio_PUBKEY") IN
    IF fail = "pub:BIO_write"
    THEN GenerateDone(Ev(m4, "BIO_write:0"), NULLP, TRUE, pkey, OE_FAILURE, privateKey, publicKey)
    ELSE
    LET obj == m.objs[rsa]
        mem == Append(PEM_text_PUBKEY(AlgId(ALG_RSA), obj.km, obj.bits), NUL)
        m5 == Ev(Ev(m4, "BIO_write"), "BIO_get_mem_ptr")
        rd == OE_RSAReadPublicKeyFromPEM(m5, Buf(mem), Len(mem), publicKey,
                                         NestedFail(fail, "pub"))
    IN
    IF rd.result # OE_OK
    THEN GenerateDone(rd.m, NULLP, TRUE, pkey, OE_FAILURE, privateKey, publicKey)
    ELSE GenerateDone(Ev(rd.m, "BIO_free"), NULLP, FALSE, pkey, OE_OK, privateKey, publicKey)

\* "Create private key object"
GeneratePrivate(m, rsa, privateKey, publicKey, fail) ==
    IF fail = "priv:BIO_new"
    THEN GenerateDone(Ev(m, "BIO_new:NULL"), rsa, FALSE, NoPkey, OE_FAILURE, privateKey, publicKey)
    ELSE
    LET m1 == Ev(m, "BIO_new") IN
    IF fail = "priv:PEM_write_bio_RSAPrivateKey"
    THEN GenerateDone(Ev(m1, "PEM_write_bio_RSAPrivateKey:0"), rsa, TRUE, NoPkey, OE_FAILURE,
                      privateKey, publicKey)
    ELSE
    LET m2 == Ev(m1, "PEM_write_bio_RSAPrivateKey") IN
    IF fail = "priv:BIO_write"
    THEN GenerateDone(Ev(m2, "BIO_write:0"), rsa, TRUE, NoPkey, OE_FAILURE, privateKey, publicKey)
    ELSE
    LET m3 == Ev(m2, "BIO_write") IN
    IF fail = "priv:BIO_get_mem_ptr"
    THEN GenerateDone(Ev(m3, "BIO_get_mem_ptr:0"), rsa, TRUE, NoPkey, OE_FAILURE,
                      privateKey, publicKey)
    ELSE
    LET obj == m.objs[rsa]
        mem == Append(PEM_text_RSAPrivateKey(obj.km, obj.bits), NUL)
        m4 == Ev(m3, "BIO_get_mem_ptr")
        rd == OE_RSAReadPrivateKeyFromPEM(m4, Buf(mem), Len(mem), privateKey,
                                          NestedFail(fail, "priv"))
    IN
    IF rd.result # OE_OK
    THEN GenerateDone(rd.m, rsa, TRUE, NoPkey, OE_FAILURE, privateKey, publicKey)
    ELSE GeneratePublic(Ev(rd.m, "BIO_free"), rsa, privateKey, publicKey, fail)

\* the int the backend receives for a bits value that passed the range check
IntOfBits(bits) == bits[3] * 65536 + bits[4]

\* faulty variant: the backend is initialised before the arguments are checked
OE_RSAGenerate_InitFirst(m, bits, exponent, privateKey, publicKey, km, fail) ==
    LET m0 == Ev(_ClearImpl(_ClearImpl(m, privateKey), publicKey), "OE_InitializeOpenSSL") IN
    IF privateKey = NULL \/ publicKey = NULL
    THEN GenerateDone(m0, NULLP, FALSE, NoPkey, OE_INVALID_PARAMETER, privateKey, publicKey)
    ELSE IF U64Gt(bits, INT_MAX)
    THEN GenerateDone(m0, NULLP, FALSE, NoPkey, OE_INVALID_PARAMETER, privateKey, publicKey)
    ELSE IF U64Gt(exponent, ULONG_MAX)
    THEN GenerateDone(m0, NULLP, FALSE, NoPkey, OE_INVALID_PARAMETER, privateKey, publicKey)
    ELSE
    IF fail = "RSA_generate_key"
    THEN GenerateDone(Ev(m0, "RSA_generate_key:NULL"), NULLP, FALSE, NoPkey, OE_FAILURE,
                      privateKey, publicKey)
    ELSE
    LET rsa == NewPtr(m0)
        m2 == Ev(RSA_new(m0, km, IntOfBits(bits), TRUE), "RSA_generate_key")
    IN GeneratePrivate(m2, rsa, privateKey, publicKey, fail)

\* faulty variant: the output handles are cleared after the arguments are checked
OE_RSAGenerate_ClearsLate(m, bits, exponent, privateKey, publicKey, km, fail) ==
    IF privateKey = NULL \/ publicKey = NULL
    THEN GenerateDone(m, NULLP, FALSE, NoPkey, OE_INVALID_PARAMETER, privateKey, publicKey)
    ELSE IF U64Gt(bits, INT_MAX)
    THEN GenerateDone(m, NULLP, FALSE, NoPkey, OE_INVALID_PARAMETER, privateKey, publicKey)
    ELSE IF U64Gt(exponent, ULONG_MAX)
    THEN GenerateDone(m, NULLP, FALSE, NoPkey, OE_INVALID_PARAMETER, privateKey, publicKey)
    ELSE
    LET m0 == _ClearImpl(_ClearImpl(m, privateKey), publicKey)
        m1 == Ev(m0, "OE_InitializeOpenSSL")
    IN
    IF fail = "RSA_generate_key"
    THEN GenerateDone(Ev(m1, "RSA_generate_key:NULL"), NULLP, FALSE, NoPkey, OE_FAILURE,
                      privateKey, publicKey)
    ELSE
    LET rsa == NewPtr(m1)
        m2 == Ev(RSA_new(m1, km, IntOfBits(bits), TRUE), "RSA_generate_key")
    IN GeneratePrivate(m2, rsa, privateKey, publicKey, fail)

OE_RSAGenerate(m, bits, exponent, privateKey, publicKey, km, fail) ==
    LET m0 == _ClearImpl(_ClearImpl(m, privateKey), publicKey) IN
    IF privateKey = NULL \/ publicKey = NULL
    THEN GenerateDone(m0, NULLP, FALSE, NoPkey, OE_INVALID_PARAMETER, privateKey, publicKey)
    ELSE IF U64Gt(bits, INT_MAX)
    THEN GenerateDone(m0, NULLP, FALSE, NoPkey, OE_INVALID_PARAMETER, privateKey, publicKey)
    ELSE IF U64Gt(exponent, ULONG_MAX)
    THEN GenerateDone(m0, NULLP, FALSE, NoPkey, OE_INVALID_PARAMETER, privateKey, publicKey)
    ELSE
    LET m1 == Ev(m0, "OE_InitializeOpenSSL") IN
    IF fail = "RSA_generate_key"
    THEN GenerateDone(Ev(m1, "RSA_generate_key:NULL"), NULLP, FALSE, NoPkey, OE_FAILURE,
                      privateKey, publicKey)
    ELSE
    LET rsa == NewPtr(m1)
        m2 == Ev(RSA_new(m1, km, IntOfBits(bits), TRUE), "RSA_generate_key")
    IN GeneratePrivate(m2, rsa, privateKey, publicKey, fail)

(***************************************************************************)
(* The record of the last call                                             *)
(***************************************************************************)
NoTag == [kind |-> "none", km |-> 0, bits |-> 0]
Tag(kind, km, bits) == [kind |-> kind, km |-> km, bits |-> bits]

NoCall ==
    [op |-> "none", key |-> NULL, key2 |-> NULL, result |-> OE_OK, fail |-> "none",
     tag |-> NoTag, htype |-> "none", hash |-> <<>>, dataNull |-> TRUE,
     sizeNull |-> TRUE, sizeIn |-> 0, sizeOut |-> 0, follows |-> "none",
     out |-> <<>>, tr |-> <<>>]

FailEvents ==
    {"BIO_new_mem_buf:NULL", "PEM_read_bio_RSAPrivateKey:NULL", "PEM_read_bio_PUBKEY:NULL",
     "EVP_PKEY_get1_RSA:NULL", "RSA_sign:0", "BIO_new:NULL", "PEM_write_bio_RSAPrivateKey:0",
     "BIO_write:0", "BIO_get_mem_ptr:0", "EVP_PKEY_new:NULL", "EVP_PKEY_assign_RSA:0",
     "PEM_write_bio_PUBKEY:0", "RSA_generate_key:NULL"}

BackendFailed(tr) == \E i \in 1..Len(tr) : tr[i] \in FailEvents

\* the failure the call met: the injected one when a backend call failed
Met(fail, tr) == IF BackendFailed(tr) \/ fail = "RSA_sign:siglen" THEN fail ELSE "none"

(***************************************************************************)
(* Inputs.  `last` is what the caller still holds of its last call.  A     *)
(* call is made either after the caller has let go of the previous call    *)
(* (Return) or as that call's continuation, taking its outputs as inputs.  *)
(***************************************************************************)
Idle == last.op = "none"

MinBits == CHOOSE b \in GoodBits : \A c \in GoodBits : b <= c

\* PEM buffers a caller passes to the readers, tagged by how they are built
PemOf(kind, km, bits) ==
    IF kind = "priv" THEN PEM_text_RSAPrivateKey(km, bits)
    ELSE IF kind = "pub" THEN PEM_text_PUBKEY(AlgId(ALG_RSA), km, bits)
    ELSE PEM_text_PUBKEY(AlgId(ALG_EC), km, bits)

PemIn(tag, bytes, size) == [tag |-> tag, buf |-> Buf(bytes), size |-> size]

GoodPem(kind, km, bits) ==
    PemIn(Tag(kind, km, bits), Append(PemOf(kind, km, bits), NUL), Len(PemOf(kind, km, bits)) + 1)

GoodPems == {GoodPem(kind, km, bits) : kind \in {"priv", "pub"}, km \in PemKeys, bits \in GoodBits}

BadPems(kind) ==
    LET t == PemOf(kind, 1, MinBits) IN
    { PemIn(Tag("unterminated", 1, MinBits), Append(t, NUL), Len(t)),
      PemIn(Tag("size0", 1, MinBits), Append(t, NUL), 0),
      PemIn(Tag("nul_inside", 1, MinBits),
            SubSeq(t, 1, 2) \o <<NUL>> \o SubSeq(t, 3, Len(t)) \o <<NUL>>, Len(t) + 2),
      PemIn(Tag("two_nul", 1, MinBits), t \o <<NUL, NUL>>, Len(t) + 2),
      PemIn(Tag("ec", 1, MinBits), Append(PemOf("ec", 1, MinBits), NUL),
            Len(PemOf("ec", 1, MinBits)) + 1),
      PemIn(Tag("garbage", 0, 0), <<B("x", 0), NUL>>, 2),
      [tag |-> Tag("null", 0, 0), buf |-> NullBuf, size |-> 2] }

\* the buffer and size the last successful writer call produced, passed on unchanged
WrittenPem ==
    IF last.op \in {"WritePrivateKeyToPEM", "WritePublicKeyToPEM"} /\ last.result = OE_OK
    THEN {PemIn(Tag("written", 0, 0), last.out, last.sizeOut)}
    ELSE {}

ReadCall(in, key, fail) == [in |-> in, key |-> key, fail |-> fail]
ReadCalls(kind, fails) ==
    IF Idle
    THEN {ReadCall(in, key, "none") : in \in GoodPems \cup BadPems(kind), key \in Handles}
         \cup {ReadCall(GoodPem(kind, km, MinBits), key, fail) :
                  km \in PemKeys, key \in Handles, fail \in fails}
         \cup {ReadCall(GoodPem(kind, 1, MinBits), NULL, "none")}
    ELSE {ReadCall(in, key, "none") : in \in WrittenPem, key \in Handles}

ReadPrivateFails == {"BIO_new_mem_buf", "PEM_read_bio_RSAPrivateKey"}
ReadPublicFails == {"BIO_new_mem_buf", "PEM_read_bio_PUBKEY", "EVP_PKEY_get1_RSA"}

\* digests a caller passes: whole, with length 0, or a null pointer
D1 == <<17, 34>>
D2 == <<51>>
Hash(d) == [buf |-> Buf(d), size |-> Len(d)]
HashSize0 == [buf |-> Buf(D1), size |-> 0]
HashNull == [buf |-> NullBuf, size |-> 2]
OtherType(t) == IF t = OE_HASH_TYPE_SHA256 THEN OE_HASH_TYPE_SHA512 ELSE OE_HASH_TYPE_SHA256
OtherDigest(d) == IF d = D1 THEN D2 ELSE D1

\* the declared size relative to the size the previous call of the same
\* operation on the same key reported with BufferTooSmall
Follows(op, key, size) ==
    IF last.op = op /\ last.key = key /\ last.result = OE_BUFFER_TOO_SMALL /\ ~size.null
    THEN IF size.v = last.sizeOut THEN "exact"
         ELSE IF size.v = last.sizeOut - 1 THEN "less" ELSE "none"
    ELSE "none"

SignCall(key, type, hash, signature, size, fail) ==
    [key |-> key, type |-> type, hash |-> hash, signature |-> signature, size |-> size,
     fail |-> fail]
SignFails == {"none", "RSA_sign", "RSA_sign:siglen"}
SignCalls ==
    IF Idle
    THEN {SignCall(key, th[1], Hash(th[2]), TRUE, SizeArg(MaxSize), fail) :
              key \in Handles,
              th \in {<<OE_HASH_TYPE_SHA256, D1>>, <<OE_HASH_TYPE_SHA256, D2>>,
                      <<OE_HASH_TYPE_SHA512, D1>>},
              fail \in SignFails}
         \cup {SignCall(key, OE_HASH_TYPE_SHA256, Hash(D1), v[1], v[2], "none") :
                  key \in Handles,
                  v \in {<<FALSE, SizeArg(0)>>, <<FALSE, SizeArg(MaxSize)>>,
                         <<TRUE, NullSize>>, <<TRUE, SizeArg(0)>>}}
         \cup {SignCall(key, OE_HASH_TYPE_SHA256, h, TRUE, SizeArg(MaxSize), "none") :
                  key \in Handles, h \in {HashSize0, HashNull}}
         \cup {SignCall(NULL, OE_HASH_TYPE_SHA256, Hash(D1), TRUE, SizeArg(MaxSize), "none")}
    ELSE IF last.op = "Sign" /\ last.result = OE_BUFFER_TOO_SMALL
    THEN {SignCall(last.key, last.htype, Hash(last.hash), v[1], SizeArg(v[2]), "none") :
              v \in {<<TRUE, last.sizeOut>>, <<TRUE, last.sizeOut - 1>>,
                     <<FALSE, last.sizeOut>>}}
    ELSE {}

\* signatures a caller passes to Verify
Tamper(sig) == [sig EXCEPT ![1] = B("sig", (@.v + 1) % 256)]
SigIn(kind, bytes, size) == [tag |-> Tag(kind, 0, 0), buf |-> Buf(bytes), size |-> size]
SigNull == [tag |-> Tag("null", 0, 0), buf |-> NullBuf, size |-> 2]
SigGarbage == SigIn("garbage", <<B("sig", 0)>>, 1)
\* a signature the caller kept from an earlier Sign with key material km
SigKept(km, type, d) ==
    LET sig == PKCS1_sig([km |-> km, bits |-> MinBits], _MapHashType(type), d) IN
    [tag |-> Tag("kept", km, MinBits), buf |-> Buf(sig), size |-> Len(sig)]

VerifyCall(key, type, hash, sig) == [key |-> key, type |-> type, hash |-> hash, sig |-> sig]
VerifyCalls ==
    IF Idle
    THEN {VerifyCall(key, OE_HASH_TYPE_SHA256, Hash(D1), sig) :
              key \in Handles, sig \in {SigNull, SigGarbage}}
         \cup {VerifyCall(key, OE_HASH_TYPE_SHA256, h, SigGarbage) :
                  key \in Handles, h \in {HashSize0, HashNull}}
         \cup {VerifyCall(NULL, OE_HASH_TYPE_SHA256, Hash(D1), SigGarbage)}
         \cup {VerifyCall(key, OE_HASH_TYPE_SHA256, Hash(D1),
                          SigKept(km, OE_HASH_TYPE_SHA256, D1)) :
                  key \in Handles, km \in KeyMats}
    ELSE IF last.op = "Sign" /\ last.result = OE_OK
    THEN LET signed == SigIn("signed", last.out, last.sizeOut) IN
         {VerifyCall(key, th[1], Hash(th[2]), signed) :
              key \in Handles,
              th \in {<<last.htype, last.hash>>, <<OtherType(last.htype), last.hash>>,
                      <<last.htype, OtherDigest(last.hash)>>}}
         \cup {VerifyCall(key, last.htype, Hash(last.hash), sig) :
                  key \in Handles,
                  sig \in {SigIn("tampered", Tamper(last.out), last.sizeOut),
                           SigIn("short", last.out, last.sizeOut - 1),
                           SigIn("size0", last.out, 0)}}
    ELSE {}

WriteCall(key, data, size, fail) == [key |-> key, data |-> data, size |-> size, fail |-> fail]
WritePrivateFails == {"none", "BIO_new", "PEM_write_bio_RSAPrivateKey", "BIO_write", "BIO_get_mem_ptr"}
WritePublicFails ==
    {"none", "BIO_new", "EVP_PKEY_new", "EVP_PKEY_assign_RSA", "PEM_write_bio_PUBKEY",
     "BIO_write", "BIO_get_mem_ptr"}
WriteCalls(op, fails) ==
    IF Idle
    THEN {WriteCall(key, TRUE, SizeArg(MaxSize), fail) : key \in Handles, fail \in fails}
         \cup {WriteCall(key, v[1], v[2], "none") :
                  key \in Handles,
                  v \in {<<FALSE, SizeArg(0)>>, <<FALSE, SizeArg(MaxSize)>>,
                         <<TRUE, NullSize>>, <<TRUE, SizeArg(0)>>}}
         \cup {WriteCall(NULL, TRUE, SizeArg(MaxSize), "none")}
    ELSE IF last.op = op /\ last.result = OE_BUFFER_TOO_SMALL
    THEN {WriteCall(last.key, v[1], SizeArg(v[2]), "none") :
              v \in {<<TRUE, last.sizeOut>>, <<TRUE, last.sizeOut - 1>>,
                     <<FALSE, last.sizeOut>>}}
    ELSE {}

\* values of bits and exponent: in range, and beyond the platform int
BitsBig == <<0, 0, 32768, 0>>
Exponent == <<0, 0, 1, 1>>
GenerateFails ==
    {"none", "RSA_generate_key", "priv:BIO_new", "priv:PEM_write_bio_RSAPrivateKey",
     "priv:BIO_write", "priv:BIO_get_mem_ptr", "priv:read:BIO_new_mem_buf",
     "priv:read:PEM_read_bio_RSAPrivateKey", "pub:BIO_new", "pub:EVP_PKEY_new",
     "pub:EVP_PKEY_assign_RSA", "pub:PEM_write_bio_PUBKEY", "pub:BIO_write",
     "pub:read:BIO_new_mem_buf", "pub:read:PEM_read_bio_PUBKEY", "pub:read:EVP_PKEY_get1_RSA"}

\* the two output handles are two objects of the caller: never the same one
GenerateCall(bits, exponent, privateKey, publicKey, km, fail) ==
    [bits |-> bits, exponent |-> exponent, privateKey |-> privateKey,
     publicKey |-> publicKey, km |-> km, fail |-> fail]
GenerateCalls ==
    {GenerateCall(U64(bits), Exponent, kk[1], kk[2], km, fail) :
        bits \in GoodBits, kk \in {<<"k1", "k2">>, <<"k2", "k1">>}, km \in GenKeys,
        fail \in GenerateFails}
    \cup {GenerateCall(bits, Exponent, kk[1], kk[2], NumKeys, "none") :
        bits \in {U64(MinBits), BitsBig},
        kk \in {<<"k1", "k2">>, <<NULL, "k1">>, <<"k1", NULL>>, <<"k2", NULL>>, <<NULL, NULL>>}}

(***************************************************************************)
(* State machine                                                           *)
(***************************************************************************)
\* a caller's handle before any operation wrote it: memory that fails _ValidImpl
UninitImpls ==
    { EmptyImpl,
      [magic |-> GarbageMagic, rsa |-> WILD],
      [magic |-> OE_RSA_KEY_MAGIC, rsa |-> NULLP] }

Init ==
    /\ hd \in [Handles -> UninitImpls]
    /\ hd["k1"].rsa = WILD
    /\ hd["k2"].magic = OE_RSA_KEY_MAGIC
    /\ objs = [p \in Cells |-> FreeCell]
    /\ origin = [k \in Handles |-> "uninit"]
    /\ last = NoCall

Prefix(bytes, n) == IF n <= Len(bytes) THEN SubSeq(bytes, 1, n) ELSE bytes

\* an injected failure is one the call runs into
Injected(fail, tr) == fail = "none" \/ Met(fail, tr) = fail

\* what the handles hold after a call that wrote `keys`: "pem" a key read from
\* a PEM text of the caller, "written" one read from the output of a writer
\* call, "generate" a generated key, "empty" nothing (left so by a call that
\* failed), "freed" nothing (released by Free)
Wrote(keys, what) == [k \in Handles |-> IF k \in keys THEN what ELSE origin[k]]

ReadPrivateKeyFromPEM ==
    \E c \in ReadCalls("priv", ReadPrivateFails) :
        LET r == OE_RSAReadPrivateKeyFromPEM(Machine(hd, objs), c.in.buf, c.in.size, c.key,
                                             c.fail)
        IN
        /\ Injected(c.fail, r.m.tr)
        /\ ~r.m.oom
        /\ hd' = r.m.hd
        /\ objs' = r.m.objs
        /\ origin' = Wrote({c.key}, IF r.result # OE_OK THEN "empty"
                                    ELSE IF c.in.tag.kind = "written" THEN "written"
                                    ELSE "pem")
        /\ last' = [NoCall EXCEPT !.op = "ReadPrivateKeyFromPEM", !.key = c.key,
                                  !.result = r.result, !.fail = Met(c.fail, r.m.tr),
                                  !.tag = c.in.tag, !.tr = r.m.tr]

ReadPublicKeyFromPEM ==
    \E c \in ReadCalls("pub", ReadPublicFails) :
        LET r == OE_RSAReadPublicKeyFromPEM(Machine(hd, objs), c.in.buf, c.in.size, c.key,
                                            c.fail)
        IN
        /\ Injected(c.fail, r.m.tr)
        /\ ~r.m.oom
        /\ hd' = r.m.hd
        /\ objs' = r.m.objs
        /\ origin' = Wrote({c.key}, IF r.result # OE_OK THEN "empty"
                                    ELSE IF c.in.tag.kind = "written" THEN "written"
                                    ELSE "pem")
        /\ last' = [NoCall EXCEPT !.op = "ReadPublicKeyFromPEM", !.key = c.key,
                                  !.result = r.result, !.fail = Met(c.fail, r.m.tr),
                                  !.tag = c.in.tag, !.tr = r.m.tr]

\* Free comes after any call that wrote a handle, on any handle; its record
\* names the previous call when that call was on the same handle
Free ==
    \E key \in KeyArgs :
        LET r == OE_RSAFree(Machine(hd, objs), key) IN
        /\ Idle \/ last.op \in {"ReadPrivateKeyFromPEM", "ReadPublicKeyFromPEM", "Generate", "Free"}
        /\ hd' = r.m.hd
        /\ objs' = r.m.objs
        /\ origin' = IF r.result = OE_OK THEN Wrote({key}, "freed") ELSE origin
        /\ last' = [NoCall EXCEPT !.op = "Free", !.key = key, !.result = r.result,
                                  !.follows = IF key # NULL /\ key \in {last.key, last.key2}
                                              THEN last.op ELSE "none",
                                  !.tag = Tag(last.result, 0, 0),
                                  !.tr = r.m.tr]

Sign ==
    \E c \in SignCalls :
        LET r == OE_RSASign(Machine(hd, objs), c.key, c.type, c.hash.buf, c.hash.size,
                            c.signature, c.size, c.fail)
        IN
        /\ Injected(c.fail, r.m.tr)
        /\ hd' = r.m.hd
        /\ objs' = r.m.objs
        /\ UNCHANGED origin
        /\ last' = [NoCall EXCEPT !.op = "Sign", !.key = c.key, !.result = r.result,
                                  !.fail = Met(c.fail, r.m.tr), !.htype = c.type,
                                  !.hash = Prefix(c.hash.buf.bytes, c.hash.size),
                                  !.tag = Tag(IF c.hash.buf.null THEN "null" ELSE "hash", 0, 0),
                                  !.dataNull = ~c.signature, !.sizeNull = c.size.null,
                                  !.sizeIn = c.size.v, !.sizeOut = r.size,
                                  !.follows = Follows("Sign", c.key, c.size),
                                  !.out = r.out, !.tr = r.m.tr]

Verify ==
    \E c \in VerifyCalls :
        LET r == OE_RSAVerify(Machine(hd, objs), c.key, c.type, c.hash.buf, c.hash.size,
                              c.sig.buf, c.sig.size)
        IN
        /\ hd' = r.m.hd
        /\ objs' = r.m.objs
        /\ UNCHANGED origin
        /\ last' = [NoCall EXCEPT !.op = "Verify", !.key = c.key, !.key2 = last.key,
                                  !.result = r.result, !.htype = c.type,
                                  !.hash = Prefix(c.hash.buf.bytes, c.hash.size),
                                  !.dataNull = c.hash.buf.null,
                                  !.tag = c.sig.tag, !.sizeIn = c.sig.size,
                                  !.follows =
                                      IF /\ c.sig.tag.kind = "signed" /\ c.type = last.htype
                                         /\ c.hash = Hash(last.hash)
                                      THEN "signed" ELSE "none",
                                  !.tr = r.m.tr]

WritePrivateKeyToPEM ==
    \E c \in WriteCalls("WritePrivateKeyToPEM", WritePrivateFails) :
        LET r == OE_RSAWritePrivateKeyToPEM(Machine(hd, objs), c.key, c.data, c.size, c.fail) IN
        /\ Injected(c.fail, r.m.tr)
        /\ hd' = r.m.hd
        /\ objs' = r.m.objs
        /\ UNCHANGED origin
        /\ last' = [NoCall EXCEPT !.op = "WritePrivateKeyToPEM", !.key = c.key,
                                  !.result = r.result, !.fail = Met(c.fail, r.m.tr),
                                  !.dataNull = ~c.data, !.sizeNull = c.size.null,
                                  !.sizeIn = c.size.v, !.sizeOut = r.size,
                                  !.follows = Follows("WritePrivateKeyToPEM", c.key, c.size),
                                  !.out = r.out, !.tr = r.m.tr]

WritePublicKeyToPEM ==
    \E c \in WriteCalls("WritePublicKeyToPEM", WritePublicFails) :
        LET r == OE_RSAWritePublicKeyToPEM(Machine(hd, objs), c.key, c.data, c.size, c.fail) IN
        /\ Injected(c.fail, r.m.tr)
        /\ hd' = r.m.hd
        /\ objs' = r.m.objs
        /\ UNCHANGED origin
        /\ last' = [NoCall EXCEPT !.op = "WritePublicKeyToPEM", !.key = c.key,
                                  !.result = r.result, !.fail = Met(c.fail, r.m.tr),
                                  !.dataNull = ~c.data, !.sizeNull = c.size.null,
                                  !.sizeIn = c.size.v, !.sizeOut = r.size,
                                  !.follows = Follows("WritePublicKeyToPEM", c.key, c.size),
                                  !.out = r.out, !.tr = r.m.tr]

Generate ==
    /\ Idle
    /\ \E c \in GenerateCalls :
        LET r == OE_RSAGenerate(Machine(hd, objs), c.bits, c.exponent, c.privateKey,
                                c.publicKey, c.km, c.fail)
        IN
        /\ Injected(c.fail, r.m.tr)
        /\ ~r.m.oom
        /\ hd' = r.m.hd
        /\ objs' = r.m.objs
        /\ origin' = Wrote({c.privateKey, c.publicKey},
                           IF r.result = OE_OK THEN "generate" ELSE "empty")
        /\ last' = [NoCall EXCEPT !.op = "Generate", !.key = c.privateKey,
                                  !.key2 = c.publicKey, !.result = r.result,
                                  !.fail = Met(c.fail, r.m.tr),
                                  !.tag = Tag(IF U64Gt(c.bits, INT_MAX) THEN "bits:big"
                                              ELSE "bits", 0, 0),
                                  !.tr = r.m.tr]

\* the caller lets go of the outcome of its last call
Return ==
    /\ ~Idle
    /\ last' = NoCall
    /\ UNCHANGED <<hd, objs, origin>>

Next ==
    \/ Return
    \/ ReadPrivateKeyFromPEM
    \/ ReadPublicKeyFromPEM
    \/ Free
    \/ Sign
    \/ Verify
    \/ WritePrivateKeyToPEM
    \/ WritePublicKeyToPEM
    \/ Generate

Spec == Init /\ [][Next]_vars

(***************************************************************************)
(* Properties                                                              *)
(***************************************************************************)
Before == Machine(hd, objs)
Valid(k) == _ValidImpl(Machine(hd, objs), k)
\* the RSA object a valid handle owns
ObjOf(k) == objs[hd[k].rsa]
Writers == {"WritePrivateKeyToPEM", "WritePublicKeyToPEM"}
Readers == {"ReadPrivateKeyFromPEM", "ReadPublicKeyFromPEM"}
Sized == Writers \cup {"Sign"}

\* C1: Free on a valid handle returns Ok and leaves the handle empty, and a
\* second Free on it right after returns InvalidParameter and leaves it empty;
\* Free on a handle that is not valid (a null handle too) returns
\* InvalidParameter, makes no backend call and changes neither the handles
\* nor the heap.
C1_Step ==
    last'.op = "Free" =>
        LET k == last'.key IN
        /\ _ValidImpl(Before, k) =>
               /\ last'.result = OE_OK
               /\ hd'[k] = EmptyImpl
        /\ ~_ValidImpl(Before, k) =>
               /\ last'.result = OE_INVALID_PARAMETER
               /\ last'.tr = <<>>
               /\ hd' = hd /\ objs' = objs
        /\ (last.op = "Free" /\ last.key = k /\ last.result = OE_OK) =>
               /\ last'.result = OE_INVALID_PARAMETER
               /\ hd'[k] = EmptyImpl
C1_FreeContract == [][C1_Step]_vars

\* a second Free on a handle right after the Free that emptied it
C1_Witness ==
    /\ last.op = "Free" /\ last.follows = "Free" /\ last.tag.kind = OE_OK
    /\ last.result = OE_INVALID_PARAMETER

\* C2: two-pass sizing of Sign, WritePrivateKeyToPEM and WritePublicKeyToPEM on
\* a valid key, when no backend call fails: a call with a null buffer and
\* declared size 0 returns BufferTooSmall and a required size R > 0; the next
\* call with a buffer and declared size R returns Ok and leaves R; the next
\* call with declared size R - 1 returns BufferTooSmall and sets R again.
C2_Query(c) == c.op \in Sized /\ c.dataNull /\ ~c.sizeNull /\ c.sizeIn = 0
C2_Step ==
    /\ ( /\ C2_Query(last') /\ _ValidImpl(Before, last'.key)
         /\ last'.op = "Sign" => last'.hash # <<>>
         /\ ~BackendFailed(last'.tr) )
       => last'.result = OE_BUFFER_TOO_SMALL /\ last'.sizeOut > 0
    /\ ( /\ C2_Query(last) /\ last.result = OE_BUFFER_TOO_SMALL
         /\ last'.op = last.op /\ last'.key = last.key
         /\ ~last'.dataNull /\ ~last'.sizeNull
         /\ ~BackendFailed(last'.tr) /\ last'.fail = "none" )
       => /\ last'.sizeIn = last.sizeOut =>
                last'.result = OE_OK /\ last'.sizeOut = last.sizeOut
          /\ last'.sizeIn = last.sizeOut - 1 =>
                last'.result = OE_BUFFER_TOO_SMALL /\ last'.sizeOut = last.sizeOut
C2_TwoPass == [][C2_Step]_vars

\* a writer call with exactly the size its size query reported
C2_Witness ==
    /\ last.op = "WritePublicKeyToPEM" /\ last.follows = "exact"
    /\ last.result = OE_OK /\ last.sizeOut = last.sizeIn

\* C3: when Generate returns anything but Ok, both output handles are empty
\* and the heap is as before the call: every object the call created,
\* the one the private handle had acquired included, is destroyed.
C3_Step ==
    (last'.op = "Generate" /\ last'.result # OE_OK) =>
        /\ \A k \in {last'.key, last'.key2} \ {NULL} : hd'[k] = EmptyImpl
        /\ objs' = objs
C3_GenerateAtomic == [][C3_Step]_vars

\* Generate failed in the public half, after the private handle was populated
C3_Witness ==
    /\ last.op = "Generate" /\ last.result = OE_FAILURE
    /\ last.fail = "pub:read:PEM_read_bio_PUBKEY"
    /\ Count(last.tr, {"PEM_read_bio_RSAPrivateKey"}) = 1

\* C4: round trip, when no backend call fails.  A successful Generate leaves
\* a private and a public handle with the same key material; reading back the
\* buffer and size that WritePrivateKeyToPEM produced gives Ok and a valid
\* handle with the written key's material; Sign with a valid private handle,
\* a non-empty digest and enough room returns Ok; Verify of that signature
\* over the same hash type and digest with a handle of the same key material
\* returns Ok.
C4_Generated ==
    (last'.op = "Generate" /\ last'.result = OE_OK) =>
        LET after == Machine(hd', objs')
            a == objs'[hd'[last'.key].rsa]
            b == objs'[hd'[last'.key2].rsa]
        IN /\ _ValidImpl(after, last'.key) /\ _ValidImpl(after, last'.key2)
           /\ a.priv /\ a.km = b.km /\ a.bits = b.bits
C4_ReadBack ==
    ( /\ last.op = "WritePrivateKeyToPEM" /\ last.result = OE_OK
      /\ last'.op = "ReadPrivateKeyFromPEM" /\ last'.tag.kind = "written" ) =>
        /\ last'.result = OE_OK
        /\ _ValidImpl(Machine(hd', objs'), last'.key)
        /\ LET a == ObjOf(last.key)
               b == objs'[hd'[last'.key].rsa]
           IN b.priv /\ b.km = a.km /\ b.bits = a.bits
C4_Signed ==
    ( /\ last'.op = "Sign" /\ _ValidImpl(Before, last'.key)
      /\ last'.hash # <<>> /\ ~last'.dataNull /\ ~last'.sizeNull
      /\ last'.fail = "none" /\ ObjOf(last'.key).priv ) =>
        \/ /\ last'.result = OE_OK /\ Len(last'.out) = last'.sizeOut
           /\ last'.sizeOut <= last'.sizeIn
        \/ last'.result = OE_BUFFER_TOO_SMALL /\ last'.sizeIn < last'.sizeOut
C4_Verified ==
    ( /\ last.op = "Sign" /\ last.result = OE_OK
      /\ last'.op = "Verify" /\ last'.follows = "signed"
      /\ _ValidImpl(Before, last'.key)
      /\ ObjOf(last'.key).km = ObjOf(last.key).km
      /\ ObjOf(last'.key).bits = ObjOf(last.key).bits ) =>
        last'.result = OE_OK
C4_RoundTrip == [][C4_Generated /\ C4_ReadBack /\ C4_Signed /\ C4_Verified]_vars

\* Verify accepts, with the generated public handle, the signature made with
\* the handle that was read back from the written PEM
C4_Witness ==
    /\ last.op = "Verify" /\ last.follows = "signed" /\ last.result = OE_OK
    /\ last.key # last.key2
    /\ origin[last.key] = "generate" /\ origin[last.key2] = "written"

\* C5: a successful Free of the only handle that owns an RSA object destroys
\* the object: its reference count is zero afterwards.
C5_Step ==
    (last'.op = "Free" /\ last'.result = OE_OK) =>
        LET p == hd[last'.key].rsa IN
        (\A k \in Handles \ {last'.key} : hd[k].rsa # p) => objs'[p].ref = 0
C5_FreeDestroys == [][C5_Step]_vars

\* the visible PEM text of the key a writer call was asked to write
TextOf(c) ==
    IF c.op = "WritePrivateKeyToPEM"
    THEN PEM_text_RSAPrivateKey(ObjOf(c.key).km, ObjOf(c.key).bits)
    ELSE PEM_text_PUBKEY(AlgId(ALG_RSA), ObjOf(c.key).km, ObjOf(c.key).bits)
C6_Sizing(c) ==
    /\ c.op \in Writers /\ c.result \in {OE_OK, OE_BUFFER_TOO_SMALL}

\* C6 as claimed: the size a writer reports, on Ok and on BufferTooSmall, is
\* the length of the visible PEM text, without the null terminator.
C6_VisibleSize == C6_Sizing(last) => last.sizeOut = Len(TextOf(last))

\* C6 as amended: the size a writer reports is the length of the visible PEM
\* text plus one: the null terminator is counted, and on Ok it is the last
\* byte of the reported size.
C6_SizeCountsTerminator ==
    C6_Sizing(last) =>
        /\ last.sizeOut = Len(TextOf(last)) + 1
        /\ last.result = OE_OK =>
               /\ Len(last.out) = last.sizeOut
               /\ last.out[last.sizeOut] = NUL
               /\ SubSeq(last.out, 1, last.sizeOut - 1) = TextOf(last)

\* a writer call that filled the caller's buffer
C6_Witness ==
    /\ last.op = "WritePrivateKeyToPEM" /\ last.result = OE_OK
    /\ last.sizeOut = Len(last.out) /\ last.out # <<>>

\* C7: the readers return InvalidParameter for a null buffer, a size of 0 and
\* a buffer whose first null byte is not its last byte, Failure for a
\* terminated buffer that the backend's PEM parser rejects, and leave the
\* handle empty whenever they do not return Ok; ReadPrivateKeyFromPEM of a
\* terminated private-key PEM returns Ok with a valid handle, and a Free of
\* that handle right after returns Ok.
Unterminated == {"null", "size0", "unterminated", "nul_inside", "two_nul"}
Unparseable(c) ==
    \/ c.tag.kind = "garbage"
    \/ c.op = "ReadPrivateKeyFromPEM" /\
          (c.tag.kind \in {"pub", "ec"} \/ c.fail = "PEM_read_bio_RSAPrivateKey")
    \/ c.op = "ReadPublicKeyFromPEM" /\
          (c.tag.kind = "priv" \/ c.fail = "PEM_read_bio_PUBKEY")
C7_Read ==
    last'.op \in Readers =>
        /\ last'.tag.kind \in Unterminated => last'.result = OE_INVALID_PARAMETER
        /\ (last'.key # NULL /\ Unparseable(last')) => last'.result = OE_FAILURE
        /\ (last'.key # NULL /\ last'.result # OE_OK) => hd'[last'.key] = EmptyImpl
        /\ ( /\ last'.op = "ReadPrivateKeyFromPEM" /\ last'.tag.kind = "priv"
             /\ last'.key # NULL /\ last'.fail = "none" ) =>
               last'.result = OE_OK /\ _ValidImpl(Machine(hd', objs'), last'.key)
C7_ThenFree ==
    ( /\ last.op = "ReadPrivateKeyFromPEM" /\ last.result = OE_OK
      /\ last'.op = "Free" /\ last'.key = last.key ) =>
        last'.result = OE_OK
C7_ReadContract == [][C7_Read /\ C7_ThenFree]_vars

\* Free returned Ok right after ReadPrivateKeyFromPEM populated the handle
C7_Witness ==
    /\ last.op = "Free" /\ last.follows = "ReadPrivateKeyFromPEM"
    /\ last.tag.kind = OE_OK /\ last.result = OE_OK

\* C8: every handle that an operation has written is empty (tag zero, pointer
\* null) or valid (tag set, pointer to an RSA object with reference count at
\* least 1).
C8_HandleInvariant ==
    \A k \in Handles :
        origin[k] # "uninit" =>
            \/ hd[k] = EmptyImpl
            \/ /\ hd[k].magic = OE_RSA_KEY_MAGIC
               /\ hd[k].rsa \in Cells
               /\ objs[hd[k].rsa].ref >= 1

\* one written handle is valid and the other written handle is empty
C8_Witness ==
    \E k, j \in Handles :
        /\ origin[k] \notin {"uninit", "empty"} /\ Valid(k)
        /\ origin[j] = "empty" /\ hd[j] = EmptyImpl
        /\ last.op \in Sized

\* C9: every result is one of the five codes; a call in which a backend call
\* failed returns Failure; Unexpected is returned only by Sign, when the
\* produced length differs from the modulus size.
C9_Taxonomy ==
    /\ last.result \in Results
    /\ BackendFailed(last.tr) => last.result = OE_FAILURE
    /\ last.result = OE_UNEXPECTED => last.op = "Sign" /\ last.fail = "RSA_sign:siglen"

\* C10: a valid handle changes only by a successful Free of it.
C10_Step ==
    \A k \in Handles :
        (_ValidImpl(Before, k) /\ hd'[k] # hd[k]) =>
            last'.op = "Free" /\ last'.key = k /\ last'.result = OE_OK
C10_NoImplicitDestroy == [][C10_Step]_vars

\* C11: parameter rejection.  Sign returns InvalidParameter when the key is
\* not valid, the digest is null or of length 0, the size pointer is null, or
\* the signature buffer is null with a non-zero size; Verify when the key is
\* not valid, the digest is null or empty, or the signature is null or of
\* length 0; the writers when the key is not valid, the size pointer is null,
\* or the buffer is null with a non-zero size; Generate when bits exceeds
\* INT_MAX or an output handle is null.  The size field is left as it was and
\* nothing is written to the output buffer.
C11_BadSized(c) ==
    \/ ~_ValidImpl(Before, c.key)
    \/ c.sizeNull
    \/ c.dataNull /\ c.sizeIn # 0
C11_BadSign(c) == C11_BadSized(c) \/ c.tag.kind = "null" \/ c.hash = <<>>
C11_BadVerify(c) ==
    \/ ~_ValidImpl(Before, c.key)
    \/ c.dataNull \/ c.hash = <<>>
    \/ c.tag.kind = "null" \/ c.sizeIn = 0
C11_BadGenerate(c) == c.tag.kind = "bits:big" \/ c.key = NULL \/ c.key2 = NULL
C11_Step ==
    /\ (last'.op = "Sign" /\ C11_BadSign(last')) =>
           /\ last'.result = OE_INVALID_PARAMETER
           /\ last'.sizeOut = last'.sizeIn /\ last'.out = <<>>
    /\ (last'.op = "Verify" /\ C11_BadVerify(last')) =>
           last'.result = OE_INVALID_PARAMETER
    /\ (last'.op \in Writers /\ C11_BadSized(last')) =>
           /\ last'.result = OE_INVALID_PARAMETER
           /\ last'.sizeOut = last'.sizeIn /\ last'.out = <<>>
    /\ (last'.op = "Generate" /\ C11_BadGenerate(last')) =>
           last'.result = OE_INVALID_PARAMETER
C11_ParameterRejection == [][C11_Step]_vars

\* Sign on a valid private key was rejected for a null signature buffer with a
\* non-zero declared size, and the size is what the caller declared
C11_Witness ==
    /\ last.op = "Sign" /\ last.result = OE_INVALID_PARAMETER
    /\ Valid(last.key) /\ ObjOf(last.key).priv
    /\ last.dataNull /\ ~last.sizeNull /\ last.sizeIn = MaxSize /\ last.sizeOut = MaxSize

\* C12: validate first.  A call that returns InvalidParameter has made no
\* backend call: no initialisation, allocation, parse, key generation, sign,
\* verify, serialisation, reference-count change or release.
C12_ValidateFirst == last.result = OE_INVALID_PARAMETER => last.tr = <<>>

\* Generate was handed a bits value beyond INT_MAX and both output handles
C12_Witness ==
    /\ last.op = "Generate" /\ last.result = OE_INVALID_PARAMETER
    /\ last.tag.kind = "bits:big" /\ last.key # NULL /\ last.key2 # NULL
    /\ last.tr = <<>>

\* the signature bytes a Verify call was handed, from how the caller built
\* them out of what it held before the call
C13_Sig(c) ==
    CASE c.tag.kind = "signed" -> last.out
      [] c.tag.kind = "tampered" -> Tamper(last.out)
      [] c.tag.kind = "short" -> SubSeq(last.out, 1, c.sizeIn)
      [] c.tag.kind = "kept" -> SigKept(c.tag.km, c.htype, c.hash).buf.bytes
      [] OTHER -> SubSeq(SigGarbage.buf.bytes, 1, c.sizeIn)
C13_Accepts(c) ==
    RSA_verify(ObjOf(c.key), _MapHashType(c.htype), c.hash, C13_Sig(c))

\* C13: with a valid key, a non-empty digest and a non-empty signature, Verify
\* returns Ok when the backend accepts the signature for the key material,
\* hash type and digest, and Failure otherwise: a signature with one byte
\* changed, one cut short, one made with other key material or over another
\* hash type or digest, and malformed bytes give Failure.  Verify never
\* returns BufferTooSmall or Unexpected.
C13_Step ==
    last'.op = "Verify" =>
        /\ last'.result \in {OE_OK, OE_FAILURE, OE_INVALID_PARAMETER}
        /\ ~C11_BadVerify(last') =>
              /\ last'.result = IF C13_Accepts(last') THEN OE_OK ELSE OE_FAILURE
              /\ last'.tag.kind \in {"tampered", "short", "garbage"} =>
                     last'.result = OE_FAILURE
              /\ ( /\ last'.tag.kind = "signed"
                   /\ \/ last'.follows # "signed"
                      \/ ObjOf(last'.key).km # ObjOf(last.key).km ) =>
                     last'.result = OE_FAILURE
C13_VerifyOutcome == [][C13_Step]_vars

\* a signature with one byte changed was refused under the signer's own key
\* material
C13_Witness ==
    /\ last.op = "Verify" /\ last.tag.kind = "tampered" /\ last.result = OE_FAILURE
    /\ Valid(last.key) /\ Valid(last.key2)
    /\ ObjOf(last.key).km = ObjOf(last.key2).km

\* the backend calls that allocate and free a memory BIO and an envelope
BioAllocs == {"BIO_new", "BIO_new_mem_buf"}
BioFrees == {"BIO_free"}
PkeyAllocs == {"EVP_PKEY_new", "PEM_read_bio_PUBKEY"}
PkeyFrees == {"EVP_PKEY_free"}
\* every allocation in the trace is freed once: as many frees as allocations,
\* and at no point more frees than allocations
Balanced(tr, allocs, frees) ==
    /\ Count(tr, allocs) = Count(tr, frees)
    /\ \A i \in 1..Len(tr) :
           Count(SubSeq(tr, 1, i), frees) <= Count(SubSeq(tr, 1, i), allocs)
Allocating == Readers \cup Writers \cup {"Generate"}

\* C14: on every exit path of the readers, the writers and Generate, every
\* memory BIO and every envelope allocated during the call has been freed
\* exactly once; the RSA object Generate creates is released exactly once,
\* directly or through the envelope that took it over: no RSA object that
\* came to life during the call is left without one of the output handles
\* owning it, and no release hits an object whose count is already zero.
C14_Step ==
    last'.op \in Allocating =>
        /\ Balanced(last'.tr, BioAllocs, BioFrees)
        /\ Balanced(last'.tr, PkeyAllocs, PkeyFrees)
        /\ Count(last'.tr, {"RSA_free:dead"}) = 0
        /\ \A p \in Cells :
               (objs[p].ref = 0 /\ objs'[p].ref > 0) =>
                   \E k \in {last'.key, last'.key2} \ {NULL} : hd'[k].rsa = p
C14_IntermediatesReleased == [][C14_Step]_vars

\* Generate failed after the envelope had taken over the generated key: the
\* key went with the envelope, and both BIOs of the call were freed
C14_Witness ==
    /\ last.op = "Generate" /\ last.fail = "pub:PEM_write_bio_PUBKEY"
    /\ last.result = OE_FAILURE
    /\ Count(last.tr, BioAllocs) = 3 /\ Count(last.tr, BioFrees) = 3
    /\ Count(last.tr, PkeyFrees) = 1

\* C15: Sign with a valid key and accepted arguments.  When the declared
\* capacity is smaller than the modulus byte length it returns BufferTooSmall,
\* sets the size to the modulus byte length, does not call the backend's sign
\* operation and writes no signature byte.  When the capacity suffices and
\* the backend signs, the size is set to exactly the modulus byte length, also
\* when the capacity was larger.
C15_Modulus(c) == RSA_size(Before, hd[c.key].rsa)
C15_Step ==
    (last'.op = "Sign" /\ ~C11_BadSign(last')) =>
        /\ last'.sizeIn < C15_Modulus(last') =>
               /\ last'.result = OE_BUFFER_TOO_SMALL
               /\ last'.sizeOut = C15_Modulus(last')
               /\ Count(last'.tr, {"RSA_sign", "RSA_sign:0"}) = 0
               /\ last'.out = <<>>
        /\ last'.result = OE_OK =>
               /\ last'.sizeIn >= C15_Modulus(last')
               /\ last'.sizeOut = C15_Modulus(last')
               /\ Len(last'.out) = C15_Modulus(last')
               /\ Count(last'.tr, {"RSA_sign"}) = 1
C15_SignCapacity == [][C15_Step]_vars

\* Sign was given a buffer one byte short of the modulus and refused it
C15_Witness ==
    /\ last.op = "Sign" /\ last.result = OE_BUFFER_TOO_SMALL
    /\ ~last.dataNull /\ last.sizeIn > 0 /\ last.sizeOut = last.sizeIn + 1
    /\ last.out = <<>>

\* Sign was given more room than the modulus and reported the modulus
C15_WitnessLarger ==
    /\ last.op = "Sign" /\ last.result = OE_OK
    /\ last.sizeIn > last.sizeOut /\ Len(last.out) = last.sizeOut

\* C16: Sign, Verify and the writers leave every handle and every RSA object
\* as they were, on every exit path: the state of each handle, the object it
\* owns and every reference count are the same after the call as before it.
ReadOnly == {"Sign", "Verify"} \cup Writers
C16_Step == last'.op \in ReadOnly => hd' = hd /\ objs' = objs
C16_ReadOnlyPreserves == [][C16_Step]_vars

\* WritePublicKeyToPEM failed at serialisation, after the envelope had taken a
\* reference on the handle's key, and the key has the one owner it had
C16_Witness ==
    /\ last.op = "WritePublicKeyToPEM" /\ last.fail = "PEM_write_bio_PUBKEY"
    /\ last.result = OE_FAILURE
    /\ Count(last.tr, {"RSA_up_ref"}) = 1 /\ Count(last.tr, {"RSA_free"}) = 1
    /\ Valid(last.key) /\ ObjOf(last.key).ref = 1

\* C17: the two handles of a successful Generate are released independently.
\* Free of either returns Ok and leaves the other handle and its object as
\* they were; a generated handle stays usable whatever happened to the other
\* one: Sign, WritePrivateKeyToPEM and WritePublicKeyToPEM with accepted
\* arguments, enough room and no backend failure return Ok, and Verify of a
\* signature made with the handle's key material returns Ok; and in no call is
\* an RSA object released whose count is already zero, nor does a valid
\* handle point to a destroyed object.
C17_Free ==
    (last'.op = "Free" /\ last'.key # NULL /\ origin[last'.key] = "generate") =>
        /\ last'.result = OE_OK
        /\ \A j \in Handles \ {last'.key} :
               /\ hd'[j] = hd[j]
               /\ _ValidImpl(Before, j) => objs'[hd[j].rsa] = objs[hd[j].rsa]
C17_Usable ==
    ( /\ last'.op \in {"Sign"} \cup Writers
      /\ last'.key # NULL /\ origin[last'.key] = "generate"
      /\ ~(IF last'.op = "Sign" THEN C11_BadSign(last') ELSE C11_BadSized(last'))
      /\ last'.fail = "none"
      /\ last'.sizeIn >= last'.sizeOut
      /\ last'.op = "WritePublicKeyToPEM" \/ ObjOf(last'.key).priv ) =>
        last'.result = OE_OK /\ last'.out # <<>>
C17_Verifies ==
    ( /\ last'.op = "Verify" /\ last'.tag.kind = "kept"
      /\ last'.key # NULL /\ origin[last'.key] = "generate"
      /\ last'.tag.km = ObjOf(last'.key).km /\ last'.tag.bits = ObjOf(last'.key).bits ) =>
        last'.result = OE_OK
C17_NoDoubleFree ==
    /\ Count(last'.tr, {"RSA_free:dead"}) = 0
    /\ \A k \in Handles :
           _ValidImpl(Machine(hd', objs'), k) => objs'[hd'[k].rsa].ref >= 1
C17_IndependentRelease ==
    [][C17_Free /\ C17_Usable /\ C17_Verifies /\ C17_NoDoubleFree]_vars

\* the generated public handle verified a signature of its key after the
\* private handle of the same Generate had been freed
C17_Witness ==
    /\ last.op = "Verify" /\ last.tag.kind = "kept" /\ last.result = OE_OK
    /\ origin[last.key] = "generate" /\ ~ObjOf(last.key).priv
    /\ \E j \in Handles \ {last.key} : origin[j] = "freed"

\* both handles of a Generate have been freed, the public one first
C17_WitnessBoth ==
    /\ last.op = "Free" /\ last.result = OE_OK /\ last.follows = "none"
    /\ \A k \in Handles : origin[k] = "freed"
    /\ \E p \in Cells : objs[p].ref > 0 /\ ~objs[p].priv

\* the position of the one occurrence of a backend call in a trace
At(tr, e) == CHOOSE i \in 1..Len(tr) : tr[i] = e

\* C18: Generate empties both output handles before it checks anything.
\* When it returns InvalidParameter (an output pointer null, bits out of
\* range) every non-null output handle is empty, whatever it held before; on
\* success both handles are valid, and the private handle was populated by
\* the private-key reader before the public handle by the public-key reader.
C18_Step ==
    last'.op = "Generate" =>
        /\ last'.result = OE_INVALID_PARAMETER =>
               \A k \in {last'.key, last'.key2} \ {NULL} : hd'[k] = EmptyImpl
        /\ last'.result = OE_OK =>
               /\ _ValidImpl(Machine(hd', objs'), last'.key)
               /\ _ValidImpl(Machine(hd', objs'), last'.key2)
               /\ Count(last'.tr, {"PEM_read_bio_RSAPrivateKey"}) = 1
               /\ Count(last'.tr, {"PEM_read_bio_PUBKEY"}) = 1
               /\ At(last'.tr, "PEM_read_bio_RSAPrivateKey")
                      < At(last'.tr, "PEM_read_bio_PUBKEY")
C18_GenerateClearsFirst == [][C18_Step]_vars

\* Generate was rejected for a null public output and a bits value in range,
\* and the private output handle is empty
C18_Witness ==
    /\ last.op = "Generate" /\ last.result = OE_INVALID_PARAMETER
    /\ last.key # NULL /\ last.key2 = NULL /\ last.tag.kind = "bits"
    /\ hd[last.key] = EmptyImpl

\* Generate succeeded
C18_WitnessOk ==
    /\ last.op = "Generate" /\ last.result = OE_OK
    /\ Valid(last.key) /\ Valid(last.key2)

\* C19: every operation that touches the backend (the readers, Sign, Verify,
\* Generate, the writers) initialises the backend within the call, after its
\* argument checks and before its first backend call: a call that made any
\* backend call made OE_InitializeOpenSSL first.
Initialising == Readers \cup Writers \cup {"Sign", "Verify", "Generate"}
C19_InitFirst ==
    (last.op \in Initialising /\ last.tr # <<>>) =>
        last.tr[1] = "OE_InitializeOpenSSL"

====
